---- MODULE Spec2Model ----
(***************************************************************************)
(* The contact-form endpoint of api/contact.py: one BaseHTTPRequestHandler *)
(* whose do_POST validates a submission, verifies a reCAPTCHA token with   *)
(* the external service and relays the message over SMTP.                  *)
(*                                                                         *)
(* Strings that the handler inspects character by character (the           *)
(* Content-Length header, name, email, message) are sequences of           *)
(* one-character strings.  An optional value (a header that may be absent) *)
(* is a sequence of length 0 or 1.  The bytes of the request body are      *)
(* abstracted to what json.loads makes of them.                            *)
(***************************************************************************)
EXTENDS Integers, Sequences, FiniteSets, TLC

VARIABLES env, pc, req, post_data, data, fields, captcha, smtp, responses,
          trace, served

vars == <<env, pc, req, post_data, data, fields, captcha, smtp, responses,
          trace, served>>

(***************************************************************************)
(* Program constants.                                                      *)
(***************************************************************************)
MAX_CONTENT_LENGTH == 10240

ALLOWED_ORIGINS == {"https://www.satyadahal.com.np", "https://satyadahal.com.np"}

ALLOWED_ENDPOINT == "/api/contact"

(* Number of requests one behaviour of the model serves. *)
MaxRequests == 2

(***************************************************************************)
(* Characters and the string functions the handler uses.                   *)
(***************************************************************************)
Digits == <<"0", "1", "2", "3", "4", "5", "6", "7", "8", "9">>

IsDigit(c) == \E i \in 1..10 : Digits[i] = c

DigitVal(c) == (CHOOSE i \in 1..10 : Digits[i] = c) - 1

Letters == {"J", "o", "j", "e", "x", "c", "m", "H", "i"}

Alnum == Letters \cup {Digits[i] : i \in 1..10}

IsSpace(c) == c \in {" ", "\n", "\t", "\r"}

RECURSIVE LStrip(_)
LStrip(s) == IF s # <<>> /\ IsSpace(Head(s)) THEN LStrip(Tail(s)) ELSE s

RECURSIVE RStrip(_)
RStrip(s) ==
    IF s # <<>> /\ IsSpace(s[Len(s)]) THEN RStrip(SubSeq(s, 1, Len(s) - 1)) ELSE s

(* str.strip() *)
Strip(s) == RStrip(LStrip(s))

RECURSIVE DecimalValue(_)
DecimalValue(ds) ==
    IF ds = <<>> THEN 0
    ELSE 10 * DecimalValue(SubSeq(ds, 1, Len(ds) - 1)) + DigitVal(ds[Len(ds)])

(* int(text): surrounding whitespace, an optional sign, decimal digits;    *)
(* anything else raises ValueError (ok = FALSE).                           *)
IntOfString(text) ==
    LET s      == Strip(text)
        signed == s # <<>> /\ Head(s) \in {"+", "-"}
        ds     == IF signed THEN Tail(s) ELSE s
    IN  IF ds # <<>> /\ \A i \in 1..Len(ds) : IsDigit(ds[i])
        THEN [ok |-> TRUE,
              val |-> IF signed /\ Head(s) = "-" THEN 0 - DecimalValue(ds)
                      ELSE DecimalValue(ds)]
        ELSE [ok |-> FALSE, val |-> 0]

(* int(self.headers.get("Content-Length", 0)) *)
ContentLengthOf(header) ==
    IF header = <<>> THEN [ok |-> TRUE, val |-> 0] ELSE IntOfString(header[1])

(* re.match(EMAIL_REGEX, email):                                           *)
(* ^[a-zA-Z0-9_.+-]+@[a-zA-Z0-9-]+\.[a-zA-Z0-9-.]+$                        *)
EmailLocalChars == Alnum \cup {"_", ".", "+", "-"}

EmailLabelChars == Alnum \cup {"-"}

EmailTailChars == Alnum \cup {"-", "."}

MatchesEmailRegex(s) ==
    \E i \in 1..Len(s) : \E j \in 1..Len(s) :
        /\ s[i] = "@" /\ s[j] = "."
        /\ 1 < i /\ i + 1 < j /\ j < Len(s)
        /\ \A k \in 1..(i - 1) : s[k] \in EmailLocalChars
        /\ \A k \in (i + 1)..(j - 1) : s[k] \in EmailLabelChars
        /\ \A k \in (j + 1)..Len(s) : s[k] \in EmailTailChars

(* html.escape(c) for one character (quote=True). *)
EscapeChar(c) ==
    CASE c = "&"  -> "&amp;"
      [] c = "<"  -> "&lt;"
      [] c = ">"  -> "&gt;"
      [] c = "\"" -> "&quot;"
      [] c = "'"  -> "&#x27;"
      [] OTHER    -> c

HtmlEscape(s) == [i \in 1..Len(s) |-> EscapeChar(s[i])]

(* html.escape(message).replace("\n", "<br>") *)
SafeMessage(s) ==
    [i \in 1..Len(s) |-> IF s[i] = "\n" THEN "<br>" ELSE EscapeChar(s[i])]

(***************************************************************************)
(* JSON values of the request body.                                        *)
(***************************************************************************)
JAbsent == [t |-> "absent", s |-> <<>>]

JNull == [t |-> "null", s |-> <<>>]

JNumber == [t |-> "number", s |-> <<>>]

JStr(s) == [t |-> "string", s |-> s]

Keys == {"g-recaptcha-response", "name", "email", "message"}

(* dict.get(key, default) *)
Get(obj, key, default) == IF obj[key].t = "absent" THEN default ELSE obj[key]

(* Python truthiness of a JSON value (JNumber stands for a non-zero number). *)
Truthy(v) ==
    CASE v.t = "string" -> v.s # <<>>
      [] v.t = "number" -> TRUE
      [] OTHER          -> FALSE

EmptyObject == [k \in Keys |-> JAbsent]

NoData == [kind |-> "none", obj |-> EmptyObject]

(***************************************************************************)
(* Inputs: request headers, request bodies, the replies of the captcha     *)
(* service and of the mail relay, and the process environment.             *)
(***************************************************************************)
Methods == {"POST", "OPTIONS"}

Paths == {ALLOWED_ENDPOINT, "/api/test"}

Origins ==
    {<<>>, <<"">>, <<"https://evil.example">>} \cup {<<o>> : o \in ALLOWED_ORIGINS}

ContentLengthHeaders ==
    { <<>>,
      << <<"x">> >>,
      << <<"0">> >>,
      << <<"6", "4">> >>,
      << <<"1", "0", "2", "4", "0">> >>,
      << <<"1", "0", "2", "4", "1">> >>,
      << <<"-", "2">> >> }

TokenValues == {JAbsent, JStr(<<>>), JStr(<<"t", "o", "k">>)}

NameValues ==
    {JAbsent, JNull, JStr(<<" ">>), JStr(<<" ", "J", "o", " ">>), JStr(<<"J", "\n", "o">>)}

EmailValues ==
    {JNumber, JStr(<<>>), JStr(<<"j", "o", "@", "e", "x", ".", "c", "o", "m", " ">>),
     JStr(<<"j", "o", "@", "e", "x">>), JStr(<<"@", "e", "x", ".", "c">>)}

MessageValues == {JAbsent, JStr(<<"\n">>), JStr(<<"H", "i", "<", "&", "\n", "i">>)}

Objects ==
    { [k \in Keys |->
          CASE k = "g-recaptcha-response" -> t
            [] k = "name"    -> n
            [] k = "email"   -> e
            [] k = "message" -> m] :
      t \in TokenValues, n \in NameValues, e \in EmailValues, m \in MessageValues }

(* undecodable: bytes that are not UTF-8/16/32 text; malformed: text that  *)
(* is not JSON; nonobject: a JSON array, string, number, boolean or null.  *)
Payloads ==
    {[kind |-> k, obj |-> EmptyObject] : k \in {"undecodable", "malformed", "nonobject"}}
    \cup {[kind |-> "object", obj |-> o] : o \in Objects}

EmptyPayload == [kind |-> "empty", obj |-> EmptyObject]

(* What requests.post / raise_for_status / response.json() can produce.    *)
CaptchaReplies ==
    {"success", "no_success", "network_error", "timeout", "http_error",
     "not_json", "json_not_object"}

(* What SMTP_SSL(...), login, send_message and the exit of the with-block  *)
(* (QUIT) can produce.                                                     *)
SmtpOutcomes == {"connect_error", "auth_error", "send_error", "quit_error", "ok"}

EnvVars == {"RECAPTCHA_SECRET", "EMAIL_FROM", "EMAIL_TO", "EMAIL_PASSWORD"}

REQUIRED_ENV == {"EMAIL_FROM", "EMAIL_TO", "EMAIL_PASSWORD"}

(* Deployments: complete, without the captcha secret, without one or all   *)
(* of the mail settings, and empty.                                        *)
Environments ==
    {EnvVars, EnvVars \ {"RECAPTCHA_SECRET"}, EnvVars \ {"EMAIL_PASSWORD"},
     {"RECAPTCHA_SECRET"}, {}}

NoRequest ==
    [method |-> "none", path |-> "", origin |-> <<>>, content_length |-> <<>>]

NoFields == [name |-> <<>>, email |-> <<>>, message |-> <<>>]

NoMessage ==
    [subject |-> <<>>, reply_to |-> <<>>, text |-> <<>>,
     html |-> [name |-> <<>>, email |-> <<>>, message |-> <<>>]]

NoCaptcha == [calls |-> 0, reply |-> "none"]

NoSmtp ==
    [calls |-> 0, outcome |-> "none", composed |-> 0, handed |-> 0, accepted |-> 0,
     msg |-> NoMessage]

(***************************************************************************)
(* Helpers of the handler.                                                 *)
(***************************************************************************)
(* Variant: a request without an Origin header is let through. *)
is_origin_allowed_unless_absent(origin) ==
    IF origin = <<>> \/ origin[1] = "" THEN TRUE ELSE origin[1] \in ALLOWED_ORIGINS

is_origin_allowed(origin) ==
    IF origin = <<>> \/ origin[1] = "" THEN FALSE ELSE origin[1] \in ALLOWED_ORIGINS

(* send_cors_headers(origin, status_code): status line and headers.        *)
send_cors_headers(origin, status_code) ==
    [status        |-> status_code,
     allow_origin  |-> IF origin # <<>> /\ origin[1] # "" /\ is_origin_allowed(origin)
                       THEN origin ELSE <<>>,
     content_type  |-> "text/plain",
     allow_methods |-> (status_code = 200),
     body          |-> ""]

(* send_cors_headers(origin, status) followed by wfile.write(body).        *)
Reply(origin, status_code, body) ==
    [send_cors_headers(origin, status_code) EXCEPT !.body = body]

(* BaseHTTPRequestHandler.send_error(404, "Not Found") *)
NotFound ==
    [status |-> 404, allow_origin |-> <<>>, content_type |-> "text/html;charset=utf-8",
     allow_methods |-> FALSE, body |-> "Not Found"]

(* The outer except of do_POST. *)
InternalServerError(origin) == Reply(origin, 500, "Internal server error")

Finish(rs) ==
    /\ responses' = responses \o rs
    /\ pc' = "done"
    /\ served' = served + 1

Continue(next) ==
    /\ pc' = next
    /\ UNCHANGED <<responses, served>>

(***************************************************************************)
(* Decisions of do_POST, one operator per check.                           *)
(***************************************************************************)
(* Variant: the cap is taken in KiB instead of bytes. *)
PayloadTooLargeKiB(content_length) == content_length > MAX_CONTENT_LENGTH * 1024

(* content_length > MAX_CONTENT_LENGTH *)
PayloadTooLarge(content_length) == content_length > MAX_CONTENT_LENGTH

(* json.loads(post_data): a dict, another JSON value, JSONDecodeError, or  *)
(* UnicodeDecodeError (a ValueError that is no JSONDecodeError).           *)
json_loads(bytes) ==
    CASE bytes.kind = "object"      -> [result |-> "dict", obj |-> bytes.obj]
      [] bytes.kind = "nonobject"   -> [result |-> "other", obj |-> EmptyObject]
      [] bytes.kind = "undecodable" -> [result |-> "UnicodeDecodeError", obj |-> EmptyObject]
      [] OTHER                      -> [result |-> "JSONDecodeError", obj |-> EmptyObject]

(* Variant: a failed call to the service lets the request through. *)
verify_captcha_fail_open(reply) ==
    CASE reply = "success"         -> "True"
      [] reply = "no_success"      -> "False"
      [] reply = "json_not_object" -> "AttributeError"
      [] OTHER                     -> "True"

(* verify_captcha(token), given what the service call produced: "True",    *)
(* "False", or the exception that leaves the function.                     *)
verify_captcha(reply) ==
    CASE reply = "success"         -> "True"
      [] reply = "no_success"      -> "False"
      [] reply = "json_not_object" -> "AttributeError"
      [] OTHER                     -> "False"

(* name/email/message as read by data.get(key, ""): .strip() exists on str *)
(* only.                                                                   *)
FieldValues(obj) ==
    [name    |-> Get(obj, "name", JStr(<<>>)),
     email   |-> Get(obj, "email", JStr(<<>>)),
     message |-> Get(obj, "message", JStr(<<>>))]

AllStrings(fv) ==
    fv.name.t = "string" /\ fv.email.t = "string" /\ fv.message.t = "string"

Stripped(fv) ==
    [name |-> Strip(fv.name.s), email |-> Strip(fv.email.s),
     message |-> Strip(fv.message.s)]

(* all([name, email, message]) *)
AllPresent(f) == f.name # <<>> /\ f.email # <<>> /\ f.message # <<>>

(* The EmailMessage built by send_email. *)
Compose(name, email, message) ==
    [subject  |-> <<"New Portfolio Message: ">> \o name,
     reply_to |-> <<name, email>>,
     text     |-> Strip(message),
     html     |-> [name |-> HtmlEscape(name), email |-> HtmlEscape(email),
                   message |-> SafeMessage(message)]]

(* A header value with a line break is refused by EmailMessage. *)
HeaderRefused(name) == \E i \in 1..Len(name) : name[i] \in {"\n", "\r"}

(* Variant: an error while leaving the SMTP session is swallowed. *)
SendRaisedUnlessQuit(outcome) == outcome \notin {"ok", "quit_error"}

(* send_email raised iff its outcome is not "ok". *)
SendRaised(outcome) == outcome # "ok"

(* Variant: the session logs in and ends without send_message. *)
HandoffsNone(outcome) == 0

(* Number of smtp.send_message(msg) calls made under an outcome. *)
Handoffs(outcome) == IF outcome \in {"send_error", "quit_error", "ok"} THEN 1 ELSE 0

(* Number of messages the relay accepted under an outcome. *)
Accepted(outcome) == IF outcome \in {"quit_error", "ok"} THEN 1 ELSE 0

(* Variant: the success reply is written after the try block, so it also  *)
(* follows the failure reply.                                              *)
SendRepliesFallThrough(origin, outcome) ==
    IF outcome # "ok"
    THEN <<Reply(origin, 500, "Failed to send message"),
           Reply(origin, 200, "Message sent successfully!")>>
    ELSE <<Reply(origin, 200, "Message sent successfully!")>>

(* Lines 123-131: what is written after send_email returned or raised.     *)
SendReplies(origin, outcome) ==
    IF SendRaised(outcome)
    THEN <<Reply(origin, 500, "Failed to send message")>>
    ELSE <<Reply(origin, 200, "Message sent successfully!")>>

(***************************************************************************)
(* Initial state and actions.                                              *)
(***************************************************************************)
Init ==
    /\ env \in Environments
    /\ pc = "idle"
    /\ req = NoRequest
    /\ post_data = NoData
    /\ data = [result |-> "none", obj |-> EmptyObject]
    /\ fields = NoFields
    /\ captcha = NoCaptcha
    /\ smtp = NoSmtp
    /\ responses = <<>>
    /\ trace = <<>>
    /\ served = 0

(* A request arrives; a handler object is constructed for it. *)
Receive ==
    /\ pc = "idle"
    /\ served < MaxRequests
    /\ \E m \in Methods, p \in Paths, o \in Origins, cl \in ContentLengthHeaders :
          req' = [method |-> m, path |-> p, origin |-> o, content_length |-> cl]
    /\ pc' = "route"
    /\ UNCHANGED <<env, post_data, data, fields, captcha, smtp, responses, trace, served>>

(* The handler returned: the handler object and all it held are dropped.   *)
Close ==
    /\ pc = "done"
    /\ pc' = "idle"
    /\ req' = NoRequest
    /\ post_data' = NoData
    /\ data' = [result |-> "none", obj |-> EmptyObject]
    /\ fields' = NoFields
    /\ captcha' = NoCaptcha
    /\ smtp' = NoSmtp
    /\ responses' = <<>>
    /\ trace' = <<>>
    /\ UNCHANGED <<env, served>>

do_OPTIONS ==
    /\ pc = "route" /\ req.method = "OPTIONS"
    /\ Finish(<<send_cors_headers(req.origin, 200)>>)
    /\ UNCHANGED <<env, req, post_data, data, fields, captcha, smtp, trace>>

CheckPath ==
    /\ pc = "route" /\ req.method = "POST"
    /\ trace' = Append(trace, "path")
    /\ IF req.path # ALLOWED_ENDPOINT
       THEN Finish(<<NotFound>>)
       ELSE Continue("origin")
    /\ UNCHANGED <<env, req, post_data, data, fields, captcha, smtp>>

CheckOrigin ==
    /\ pc = "origin"
    /\ trace' = Append(trace, "origin")
    /\ IF ~is_origin_allowed(req.origin)
       THEN Finish(<<Reply(req.origin, 403, "CORS policy violation")>>)
       ELSE Continue("size")
    /\ UNCHANGED <<env, req, post_data, data, fields, captcha, smtp>>

CheckContentLength ==
    /\ pc = "size"
    /\ trace' = Append(trace, "size")
    /\ LET n == ContentLengthOf(req.content_length) IN
          IF ~n.ok
          THEN Finish(<<InternalServerError(req.origin)>>)
          ELSE IF PayloadTooLarge(n.val)
          THEN Finish(<<Reply(req.origin, 413, "Payload too large")>>)
          ELSE Continue("json")
    /\ UNCHANGED <<env, req, post_data, data, fields, captcha, smtp>>

(* rfile.read(content_length) and json.loads.  read(0) returns no bytes,   *)
(* read(-1) reads to the end of the stream, and a length below -1 is       *)
(* refused with ValueError by the buffered reader.                         *)
ParseBody ==
    /\ pc = "json"
    /\ trace' = Append(trace, "json")
    /\ LET n == ContentLengthOf(req.content_length).val IN
       IF n < -1
       THEN /\ Finish(<<InternalServerError(req.origin)>>)
            /\ UNCHANGED <<post_data, data>>
       ELSE \E sent \in Payloads :
            LET bytes  == IF n = 0 THEN EmptyPayload ELSE sent
                parsed == json_loads(bytes)
            IN  /\ n = 0 => sent.kind = "malformed"
                /\ post_data' = bytes
                /\ CASE parsed.result = "JSONDecodeError" ->
                            /\ data' = data
                            /\ Finish(<<Reply(req.origin, 400, "Invalid JSON format")>>)
                     [] parsed.result = "UnicodeDecodeError" ->
                            /\ data' = data
                            /\ Finish(<<InternalServerError(req.origin)>>)
                     [] OTHER ->
                            /\ data' = parsed
                            /\ Continue("token")
    /\ UNCHANGED <<env, req, fields, captcha, smtp>>

CheckToken ==
    /\ pc = "token"
    /\ trace' = Append(trace, "token")
    /\ IF data.result # "dict"
       THEN Finish(<<InternalServerError(req.origin)>>)
       ELSE IF ~Truthy(Get(data.obj, "g-recaptcha-response", JNull))
       THEN Finish(<<Reply(req.origin, 400, "Missing reCAPTCHA token")>>)
       ELSE Continue("captcha")
    /\ UNCHANGED <<env, req, post_data, data, fields, captcha, smtp>>

VerifyCaptcha ==
    /\ pc = "captcha"
    /\ trace' = Append(trace, "captcha")
    /\ IF "RECAPTCHA_SECRET" \notin env
       THEN /\ captcha' = captcha
            /\ Finish(<<InternalServerError(req.origin)>>)
       ELSE \E reply \in CaptchaReplies :
              /\ captcha' = [calls |-> captcha.calls + 1, reply |-> reply]
              /\ CASE verify_captcha(reply) = "True" -> Continue("fields")
                   [] verify_captcha(reply) = "False" ->
                        Finish(<<Reply(req.origin, 400, "reCAPTCHA verification failed")>>)
                   [] OTHER -> Finish(<<InternalServerError(req.origin)>>)
    /\ UNCHANGED <<env, req, post_data, data, fields, smtp>>

ValidateFields ==
    /\ pc = "fields"
    /\ trace' = Append(trace, "fields")
    /\ LET fv == FieldValues(data.obj) IN
          IF ~AllStrings(fv)
          THEN /\ fields' = fields
               /\ Finish(<<InternalServerError(req.origin)>>)
          ELSE /\ fields' = Stripped(fv)
               /\ IF ~AllPresent(Stripped(fv))
                  THEN Finish(<<Reply(req.origin, 400, "All fields are required")>>)
                  ELSE Continue("email")
    /\ UNCHANGED <<env, req, post_data, data, captcha, smtp>>

ValidateEmail ==
    /\ pc = "email"
    /\ trace' = Append(trace, "email")
    /\ IF ~MatchesEmailRegex(fields.email)
       THEN Finish(<<Reply(req.origin, 400, "Invalid email format")>>)
       ELSE Continue("send")
    /\ UNCHANGED <<env, req, post_data, data, fields, captcha, smtp>>

(* Lines 122-131 with send_email: the configuration check, the message,    *)
(* then the SMTP session.  connect_error stands for every exception        *)
(* between the composed message and the login.                             *)
SendEmail ==
    /\ pc = "send"
    /\ trace' = Append(trace, "send")
    /\ \E outcome \in SmtpOutcomes \cup {"config_error", "header_error"} :
          /\ outcome = "config_error" <=> ~(REQUIRED_ENV \subseteq env)
          /\ outcome # "config_error" =>
                (outcome = "header_error" <=> HeaderRefused(fields.name))
          /\ LET built == outcome \notin {"config_error", "header_error"} IN
             smtp' = [calls    |-> smtp.calls + 1,
                      outcome  |-> outcome,
                      composed |-> IF built THEN 1 ELSE 0,
                      handed   |-> Handoffs(outcome),
                      accepted |-> Accepted(outcome),
                      msg      |-> IF built
                                   THEN Compose(fields.name, fields.email, fields.message)
                                   ELSE NoMessage]
          /\ Finish(SendReplies(req.origin, outcome))
    /\ UNCHANGED <<env, req, post_data, data, fields, captcha>>

do_POST ==
    \/ CheckPath \/ CheckOrigin \/ CheckContentLength \/ ParseBody \/ CheckToken
    \/ VerifyCaptcha \/ ValidateFields \/ ValidateEmail \/ SendEmail

Next == Receive \/ do_OPTIONS \/ do_POST \/ Close

Spec == Init /\ [][Next]_vars

(* Every step of the handler is a bounded computation or an outbound call  *)
(* with a timeout (3 s for the captcha service, SMTP_TIMEOUT for the mail  *)
(* relay), and the client delivers the body it declared, so a request in   *)
(* progress is always taken further.                                       *)
FairSpec == Spec /\ WF_vars(do_OPTIONS \/ do_POST)

(***************************************************************************)
(* Properties.  The predicates below read the request and what the         *)
(* services answered; they do not use the handler's own decisions.         *)
(***************************************************************************)
PipelineOrder ==
    <<"path", "origin", "size", "json", "token", "captcha", "fields", "email", "send">>

DOCUMENTED_STATUS == {200, 400, 403, 404, 413, 500}

TypeOK ==
    /\ env \subseteq EnvVars
    /\ pc \in {"idle", "route", "origin", "size", "json", "token", "captcha",
               "fields", "email", "send", "done"}
    /\ served \in 0..MaxRequests
    /\ captcha.calls \in 0..1
    /\ smtp.calls \in 0..1

(* The checks run are always an initial part of the fixed order. *)
ChecksRunInOrder ==
    /\ Len(trace) <= Len(PipelineOrder)
    /\ trace = SubSeq(PipelineOrder, 1, Len(trace))

PostToContact == req.method = "POST" /\ req.path = ALLOWED_ENDPOINT

OriginInAllowList == req.origin # <<>> /\ req.origin[1] \in ALLOWED_ORIGINS

Declared == ContentLengthOf(req.content_length)

DeclaredOversize == Declared.ok /\ Declared.val > MAX_CONTENT_LENGTH

DeclaredWithinCap == Declared.ok /\ Declared.val <= MAX_CONTENT_LENGTH

Answered(status_code, body) ==
    /\ Len(responses) = 1
    /\ responses[1].status = status_code
    /\ responses[1].body = body

ParseableJson == post_data.kind \in {"object", "nonobject"}

NotParseableJson == post_data.kind \in {"empty", "malformed", "undecodable"}

TokenLacking ==
    \/ post_data.kind # "object"
    \/ post_data.obj["g-recaptcha-response"].t \in {"absent", "null"}
    \/ /\ post_data.obj["g-recaptcha-response"].t = "string"
       /\ post_data.obj["g-recaptcha-response"].s = <<>>

FieldLacking(v) == v.t # "string" \/ Strip(v.s) = <<>>

SomeFieldLacking ==
    \E k \in {"name", "email", "message"} : FieldLacking(post_data.obj[k])

EmailWellFormed ==
    /\ post_data.obj["email"].t = "string"
    /\ MatchesEmailRegex(Strip(post_data.obj["email"].s))

FullyValid ==
    /\ PostToContact /\ OriginInAllowList /\ DeclaredWithinCap
    /\ post_data.kind = "object" /\ ~TokenLacking /\ ~SomeFieldLacking
    /\ EmailWellFormed

CaptchaFailed == captcha.calls >= 1 /\ captcha.reply # "success"

(***************************************************************************)
(* C1.  For a POST to /api/contact the checks run in the order origin,     *)
(* size, JSON parse, token, captcha verification, fields, email pattern;   *)
(* the response is that of the first check that fails, and nothing after   *)
(* that check runs (no later check, no captcha call, no mail send).        *)
(* Stated for requests with a non-negative numeric Content-Length and a    *)
(* configured captcha secret.                                              *)
(***************************************************************************)
FirstFailure ==
    IF ~OriginInAllowList
    THEN [n |-> 2, status |-> 403, body |-> "CORS policy violation"]
    ELSE IF DeclaredOversize
    THEN [n |-> 3, status |-> 413, body |-> "Payload too large"]
    ELSE IF NotParseableJson
    THEN [n |-> 4, status |-> 400, body |-> "Invalid JSON format"]
    ELSE IF TokenLacking
    THEN [n |-> 5, status |-> 400, body |-> "Missing reCAPTCHA token"]
    ELSE IF captcha.reply # "success"
    THEN [n |-> 6, status |-> 400, body |-> "reCAPTCHA verification failed"]
    ELSE IF SomeFieldLacking
    THEN [n |-> 7, status |-> 400, body |-> "All fields are required"]
    ELSE IF ~EmailWellFormed
    THEN [n |-> 8, status |-> 400, body |-> "Invalid email format"]
    ELSE [n |-> 9, status |-> 0, body |-> ""]

C1_FirstFailingCheckAnswers ==
    (/\ pc = "done" /\ PostToContact
     /\ Declared.ok /\ Declared.val >= 0
     /\ "RECAPTCHA_SECRET" \in env)
    => /\ trace = SubSeq(PipelineOrder, 1, FirstFailure.n)
       /\ FirstFailure.n < 9 => Answered(FirstFailure.status, FirstFailure.body)
       /\ FirstFailure.n < 6 => captcha.calls = 0
       /\ FirstFailure.n < 9 => smtp.calls = 0

(***************************************************************************)
(* C2 as stated.  A fully valid request whose captcha verification         *)
(* succeeds ends with exactly one email composed and handed to the         *)
(* transport and the response 200 "Message sent successfully!".            *)
(***************************************************************************)
C2_ValidRequestAlwaysSent ==
    (pc = "done" /\ FullyValid /\ captcha.reply = "success")
    => /\ smtp.composed = 1 /\ smtp.handed = 1
       /\ Answered(200, "Message sent successfully!")

(***************************************************************************)
(* C2 amended.  A fully valid request whose captcha verification succeeds  *)
(* invokes send_email exactly once.  When send_email returns, exactly one  *)
(* email (subject "New Portfolio Message: <name>") was composed and        *)
(* handed to the transport and the response is 200 "Message sent           *)
(* successfully!"; when it raises, at most one email was composed and      *)
(* handed over and the response is 500 "Failed to send message".           *)
(***************************************************************************)
C2_ValidRequestSentOnce ==
    (pc = "done" /\ FullyValid /\ captcha.reply = "success")
    => /\ smtp.calls = 1 /\ smtp.composed <= 1 /\ smtp.handed <= 1
       /\ smtp.outcome = "ok" =>
            /\ smtp.composed = 1 /\ smtp.handed = 1 /\ smtp.accepted = 1
            /\ smtp.msg.subject =
                 <<"New Portfolio Message: ">> \o Strip(post_data.obj["name"].s)
            /\ Answered(200, "Message sent successfully!")
       /\ smtp.outcome # "ok" => Answered(500, "Failed to send message")

C2_Witness ==
    /\ pc = "done" /\ FullyValid /\ captcha.reply = "success"
    /\ smtp.outcome = "ok" /\ smtp.handed = 1
    /\ Answered(200, "Message sent successfully!")

(***************************************************************************)
(* C3 as stated.  Whenever the verification call fails (no success, a      *)
(* network failure, a timeout, a malformed response) the response is 400,  *)
(* the call is made once and no email is sent.                             *)
(***************************************************************************)
C3_CaptchaFailureIs400 ==
    CaptchaFailed
    => /\ pc = "done" /\ captcha.calls = 1
       /\ smtp.calls = 0 /\ smtp.handed = 0
       /\ Len(responses) = 1 /\ responses[1].status = 400

(***************************************************************************)
(* C3 amended.  Whenever the verification call fails, the call is made     *)
(* once, no email is sent, and the response is 400 "reCAPTCHA verification *)
(* failed", except that a reply that is JSON but not an object gives 500   *)
(* "Internal server error".                                                *)
(***************************************************************************)
C3_CaptchaFailureRejected ==
    CaptchaFailed
    => /\ pc = "done" /\ captcha.calls = 1
       /\ smtp.calls = 0 /\ smtp.handed = 0
       /\ IF captcha.reply = "json_not_object"
          THEN Answered(500, "Internal server error")
          ELSE Answered(400, "reCAPTCHA verification failed")

C3_Witness ==
    /\ pc = "done" /\ captcha.calls = 1 /\ captcha.reply = "timeout"
    /\ Answered(400, "reCAPTCHA verification failed")

(***************************************************************************)
(* C4.  A request that reaches the token check with a parsed JSON body     *)
(* lacking a captcha token is answered 400 and no verification call is     *)
(* made.                                                                   *)
(***************************************************************************)
C4_MissingTokenIs400 ==
    (/\ pc = "done" /\ PostToContact /\ OriginInAllowList /\ DeclaredWithinCap
     /\ ParseableJson /\ TokenLacking)
    => /\ captcha.calls = 0
       /\ Len(responses) = 1 /\ responses[1].status = 400

(***************************************************************************)
(* C5.  A POST whose declared Content-Length exceeds 10240 never reaches   *)
(* the captcha service or the mail transport, and, once it has passed the  *)
(* path and origin checks, is answered 413 "Payload too large".            *)
(***************************************************************************)
C5_OversizeRejected ==
    (req.method = "POST" /\ DeclaredOversize)
    => /\ smtp.calls = 0 /\ smtp.handed = 0 /\ captcha.calls = 0
       /\ post_data = NoData
       /\ (pc = "done" /\ PostToContact /\ OriginInAllowList)
            => Answered(413, "Payload too large")

C5_Witness ==
    /\ pc = "done" /\ PostToContact /\ OriginInAllowList /\ DeclaredOversize
    /\ Answered(413, "Payload too large")

(***************************************************************************)
(* C6.  A request whose body, once read, is not a parseable JSON document  *)
(* (text that is not JSON, or bytes that cannot be decoded) is answered    *)
(* 400.                                                                    *)
(***************************************************************************)
C6_MalformedJsonIs400 ==
    (pc = "done" /\ NotParseableJson)
    => Len(responses) = 1 /\ responses[1].status = 400

(***************************************************************************)
(* C7.  A request that passed the captcha verification and in which name,  *)
(* email or message is absent, empty, whitespace-only, null or not a       *)
(* string is answered 400.                                                 *)
(***************************************************************************)
C7_MissingFieldIs400 ==
    (/\ pc = "done" /\ post_data.kind = "object" /\ captcha.reply = "success"
     /\ SomeFieldLacking)
    => Len(responses) = 1 /\ responses[1].status = 400

(***************************************************************************)
(* The order and the short-circuit of C1 hold whenever the failing check   *)
(* rejects the request itself, that is, apart from the bodies and replies  *)
(* on which a check leaves do_POST through the outer except (C4, C6, C7,   *)
(* and the non-object reply of C3).                                        *)
(***************************************************************************)
RejectedByACheck ==
    /\ post_data.kind \notin {"undecodable", "nonobject"}
    /\ captcha.reply # "json_not_object"
    /\ \A k \in {"name", "email", "message"} :
          post_data.obj[k].t \in {"absent", "string"}

FirstFailingCheckAnswersWhenRejected ==
    (/\ pc = "done" /\ PostToContact
     /\ Declared.ok /\ Declared.val >= 0
     /\ "RECAPTCHA_SECRET" \in env
     /\ RejectedByACheck)
    => /\ trace = SubSeq(PipelineOrder, 1, FirstFailure.n)
       /\ FirstFailure.n < 9 => Answered(FirstFailure.status, FirstFailure.body)
       /\ FirstFailure.n < 6 => captcha.calls = 0
       /\ FirstFailure.n < 9 => smtp.calls = 0

(***************************************************************************)
(* C8.  send_email is attempted at most once per request, and whenever it  *)
(* raises (mail configuration missing, header refused, connection, login,  *)
(* send or session error) the request ends with the single response 500    *)
(* "Failed to send message"; the 200 response is not written.              *)
(***************************************************************************)
C8_SendFailureSurfaced ==
    /\ smtp.calls <= 1
    /\ smtp.outcome \notin {"none", "ok"}
         => /\ pc = "done" /\ smtp.calls = 1
            /\ Answered(500, "Failed to send message")
            /\ \A i \in 1..Len(responses) : responses[i].status # 200

C8_Witness ==
    /\ pc = "done" /\ smtp.calls = 1 /\ smtp.outcome = "auth_error"
    /\ Answered(500, "Failed to send message")

(***************************************************************************)
(* C9.  Every POST ends with exactly one response: at no point have two    *)
(* responses been written, the handler has returned exactly when one has   *)
(* been written, its status is one of 200, 400, 403, 404, 413, 500, and a  *)
(* request in progress always reaches that end.                            *)
(***************************************************************************)
OneDocumentedResponse ==
    req.method = "POST"
    => /\ Len(responses) <= 1
       /\ pc = "done" <=> Len(responses) = 1
       /\ \A i \in 1..Len(responses) : responses[i].status \in DOCUMENTED_STATUS

C9_ExactlyOneResponse ==
    /\ []OneDocumentedResponse
    /\ (pc \notin {"idle", "done"}) ~> (pc = "done")

C9_Witness ==
    /\ pc = "done" /\ req.method = "POST" /\ ~Declared.ok
    /\ Answered(500, "Internal server error")

(***************************************************************************)
(* C10.  The mail send is reached, and a message handed to the transport,  *)
(* only in a request to /api/contact whose origin is in the allow-list and *)
(* whose single captcha verification call returned success, after all the  *)
(* checks ran in order.                                                    *)
(***************************************************************************)
C10_SendOnlyAfterVerification ==
    (pc = "send" \/ smtp.calls > 0 \/ smtp.handed > 0)
    => /\ PostToContact /\ OriginInAllowList
       /\ captcha.calls = 1 /\ captcha.reply = "success"
       /\ SubSeq(PipelineOrder, 1, 8) = SubSeq(trace, 1, 8)

C10_Witness ==
    /\ smtp.handed = 1 /\ smtp.accepted = 1
    /\ OriginInAllowList /\ captcha.reply = "success"

====
